---- MODULE Spec2Model ----
(***************************************************************************)
(* Model of the FeedDirectory component (src/src/App.tsx).                 *)
(*                                                                         *)
(* Strings are sequences of tokens: a title or a search string is a        *)
(* sequence of characters, a URL a short sequence of URL parts.  The empty *)
(* string is << >>.  A CSV row is a record holding only the columns the    *)
(* parser found for it, so a missing column is a missing field.            *)
(***************************************************************************)
EXTENDS Integers, Sequences, FiniteSets, TLC

VARIABLES feeds, loading, error, searchTerm, pc, fetchCount, parserInvoked,
          results, imgSrc, lastEvent

vars == <<feeds, loading, error, searchTerm, pc, fetchCount, parserInvoked,
          results, imgSrc, lastEvent>>

\* ------------------------------------------------------------------ bounds
MaxRows == 2
MaxSearchLen == 3

\* ------------------------------------------------------------- characters
SIGMA == "SIGMA"     \* U+03A3 GREEK CAPITAL LETTER SIGMA
sigma == "sigma"     \* U+03C3 GREEK SMALL LETTER SIGMA
fsigma == "fsigma"   \* U+03C2 GREEK SMALL LETTER FINAL SIGMA

UpperChars == {"A", "C", "E", "F", "M", "N", "O", "U", SIGMA}
LowerChars == {"a", "c", "e", "f", "m", "n", "o", "u", "d", "h", "i", "l",
               "r", "s", "t", "w", sigma, fsigma}

Cased(c) == c \in UpperChars \cup LowerChars

\* The context-free part of the Unicode lower-case mapping.
LowerChar(c) ==
    CASE c = "A" -> "a" [] c = "C" -> "c" [] c = "E" -> "e" [] c = "F" -> "f"
      [] c = "M" -> "m" [] c = "N" -> "n" [] c = "O" -> "o" [] c = "U" -> "u"
      [] c = SIGMA -> sigma
      [] OTHER -> c

\* SpecialCasing Final_Sigma: a capital sigma preceded by a cased letter and
\* not followed by one lower-cases to the final form.
FinalSigma(s, i) ==
    /\ s[i] = SIGMA
    /\ i > 1 /\ Cased(s[i - 1])
    /\ (i = Len(s) \/ ~Cased(s[i + 1]))

\* String.prototype.toLowerCase
toLowerCase(s) ==
    [i \in 1..Len(s) |-> IF FinalSigma(s, i) THEN fsigma ELSE LowerChar(s[i])]

\* String.prototype.includes
includes(t, s) ==
    \E i \in 0..(Len(t) - Len(s)) : SubSeq(t, i + 1, i + Len(s)) = s

\* ------------------------------------------------------------------ inputs
ACMENews == <<"A", "C", "M", "E", " ", "N", "e", "w", "s">>
Other == <<"O", "t", "h", "e", "r">>
ASigmaA == <<"A", SIGMA, "A">>
UntitledFeed == <<"U", "n", "t", "i", "t", "l", "e", "d", " ", "F", "e", "e", "d">>

UrlA == <<"http://a.com/rss">>
UrlB == <<"http://b.com/rss">>
UrlC == <<"http://c.com/rss">>

\* The rows the parser may deliver (header: true gives one record per line;
\* a short line lacks the trailing columns).
Rows == {
    [feed_title |-> ACMENews, feed_url |-> UrlA, website_url |-> <<"http://", "a.com">>],
    [feed_title |-> Other, feed_url |-> UrlB, website_url |-> <<"b.com">>],
    [feed_url |-> UrlA],
    [feed_title |-> << >>, feed_url |-> UrlB, website_url |-> <<"http://">>],
    [feed_title |-> ASigmaA, feed_url |-> UrlC, website_url |-> << >>],
    [feed_title |-> Other],
    [feed_title |-> ACMENews, feed_url |-> << >>, website_url |-> <<"b c">>]
}

RECURSIVE SeqsUpTo(_, _)
SeqsUpTo(S, n) ==
    IF n = 0 THEN {<< >>}
    ELSE LET shorter == SeqsUpTo(S, n - 1)
         IN  shorter \cup {Append(s, c) : s \in {t \in shorter : Len(t) = n - 1}, c \in S}

DataSets == SeqsUpTo(Rows, MaxRows)

SearchAlphabet == {"A", SIGMA}

SearchTerms ==
    SeqsUpTo(SearchAlphabet, MaxSearchLen) \cup {<<"a", "c", "m", "e">>, <<"o">>}

Statuses == {"404", "500"}

\* ----------------------------------------------------------- row mapping
Null == << >>

DigitStr == <<"0", "1", "2", "3", "4", "5", "6", "7", "8", "9">>

\* `feed-${index}`
FeedIndexId(index) == <<"feed-", DigitStr[index + 1]>>

\* OrDefault with the operands of || swapped: the default always wins.
OrDefault_Swapped(feed, column, dflt) ==
    IF dflt # << >> THEN dflt
    ELSE IF column \in DOMAIN feed THEN feed[column] ELSE << >>

\* feed.<column> || dflt
OrDefault(feed, column, dflt) ==
    IF column \in DOMAIN feed /\ feed[column] # << >> THEN feed[column] ELSE dflt

DefaultFavicon == <<"BASE_URL", "default-favicon.png">>

ValidHosts == {"a.com", "b.com"}

startsWithHttp(w) == Len(w) > 0 /\ w[1] \in {"http://", "https://"}

\* new URL(u) throws unless u is a scheme followed by a well-formed host.
URLParses(u) == Len(u) = 2 /\ u[1] \in {"http://", "https://"} /\ u[2] \in ValidHosts

hostname(u) == u[2]

getFaviconUrl(websiteUrl) ==
    IF websiteUrl # << >>
    THEN LET u == IF startsWithHttp(websiteUrl) THEN websiteUrl
                  ELSE <<"https://">> \o websiteUrl
         IN  IF URLParses(u)
             THEN <<"https://www.google.com/s2/favicons?domain=", hostname(u)>>
             ELSE DefaultFavicon
    ELSE DefaultFavicon

\* SanitizeRow without the placeholder title.
SanitizeRow_NoTitleDefault(feed, index) ==
    LET websiteUrl == OrDefault(feed, "website_url", << >>)
    IN  [id |-> OrDefault(feed, "feed_url", FeedIndexId(index)),
         feed_title |-> OrDefault(feed, "feed_title", << >>),
         feed_url |-> OrDefault(feed, "feed_url", << >>),
         website_url |-> websiteUrl,
         favicon_url |-> getFaviconUrl(websiteUrl)]

SanitizeRow(feed, index) ==
    LET websiteUrl == OrDefault(feed, "website_url", << >>)
    IN  [id |-> OrDefault(feed, "feed_url", FeedIndexId(index)),
         feed_title |-> OrDefault(feed, "feed_title", UntitledFeed),
         feed_url |-> OrDefault(feed, "feed_url", << >>),
         website_url |-> websiteUrl,
         favicon_url |-> getFaviconUrl(websiteUrl)]

\* The filter predicate accepting every mapped row.
HasFeedUrl_Always(feed) == feed.feed_url = feed.feed_url

HasFeedUrl(feed) == feed.feed_url # << >>

sanitizedFeeds(data) ==
    SelectSeq([k \in 1..Len(data) |-> SanitizeRow(data[k], k - 1)], HasFeedUrl)

\* ------------------------------------------------------------- filtering
Matches(feed, term) ==
    /\ feed.feed_title # << >>
    /\ includes(toLowerCase(feed.feed_title), toLowerCase(term))

Filter(fs, term) == SelectSeq(fs, LAMBDA f : Matches(f, term))

filteredFeeds == Filter(feeds, searchTerm)

\* Indices of feeds whose row is rendered for a search string.
Displayed(fs, term) == {i \in 1..Len(fs) : Matches(fs[i], term)}

\* ------------------------------------------------------------------ state
Init ==
    /\ feeds = << >>
    /\ loading = TRUE
    /\ error = Null
    /\ searchTerm = << >>
    /\ pc = "mount"
    /\ fetchCount = 0
    /\ parserInvoked = FALSE
    /\ results = [data |-> << >>, errors |-> FALSE]
    /\ imgSrc = << >>
    /\ lastEvent = "none"

\* The catch block without setLoading(false).
Catch_NoSetLoading(message) ==
    /\ error' = <<"Error loading or processing feeds: ">> \o message
                  \o <<". Ensure 'feeds_deduped.csv' is accessible.">>
    /\ pc' = "done"
    /\ UNCHANGED <<feeds, loading, searchTerm, fetchCount, results, imgSrc>>

\* catch (err) { setError(...); setLoading(false); }
Catch(message) ==
    /\ error' = <<"Error loading or processing feeds: ">> \o message
                  \o <<". Ensure 'feeds_deduped.csv' is accessible.">>
    /\ loading' = FALSE
    /\ pc' = "done"
    /\ UNCHANGED <<feeds, searchTerm, fetchCount, results, imgSrc>>

\* The effect re-running after the load has finished (a dependency added to
\* the dependency array).
Mount_Rerun ==
    /\ pc \in {"mount", "done"}
    /\ fetchCount < 3
    /\ fetchCount' = fetchCount + 1
    /\ pc' = "fetching"
    /\ lastEvent' = "mount"
    /\ UNCHANGED <<feeds, loading, error, searchTerm, parserInvoked, results, imgSrc>>

\* useEffect(..., []) : the effect runs once and loadFeeds issues the fetch.
Mount ==
    /\ pc = "mount"
    /\ fetchCount' = fetchCount + 1
    /\ pc' = "fetching"
    /\ lastEvent' = "mount"
    /\ UNCHANGED <<feeds, loading, error, searchTerm, parserInvoked, results, imgSrc>>

\* The fetch promise rejects (network failure).
FetchReject ==
    /\ pc = "fetching"
    /\ Catch(<<"Failed to fetch">>)
    /\ lastEvent' = "fetchReject"
    /\ UNCHANGED parserInvoked

\* The response.ok test left out: a failed response is read like a good one.
FetchNotOk_Unchecked ==
    /\ pc = "fetching"
    /\ pc' = "reading"
    /\ lastEvent' = "fetchNotOk"
    /\ UNCHANGED <<feeds, loading, error, searchTerm, fetchCount, parserInvoked,
                   results, imgSrc>>

\* The fetch resolves with a response that is not OK.
FetchNotOk ==
    /\ pc = "fetching"
    /\ \E status \in Statuses : Catch(<<"HTTP error! status: ", status>>)
    /\ lastEvent' = "fetchNotOk"
    /\ UNCHANGED parserInvoked

\* The fetch resolves with an OK response; loadFeeds awaits response.text().
FetchOk ==
    /\ pc = "fetching"
    /\ pc' = "reading"
    /\ lastEvent' = "fetchOk"
    /\ UNCHANGED <<feeds, loading, error, searchTerm, fetchCount, parserInvoked,
                   results, imgSrc>>

\* response.text() rejects.
TextReject ==
    /\ pc = "reading"
    /\ Catch(<<"Failed to read body">>)
    /\ lastEvent' = "textReject"
    /\ UNCHANGED parserInvoked

\* The body is read and Papa.parse calls complete(results) synchronously.
\* results.errors may be non-empty together with the rows that were read.
ParseComplete ==
    /\ pc = "reading"
    /\ \E data \in DataSets, errs \in BOOLEAN :
          /\ results' = [data |-> data, errors |-> errs]
          /\ feeds' = sanitizedFeeds(data)
          /\ imgSrc' = [i \in Displayed(sanitizedFeeds(data), searchTerm) |->
                           sanitizedFeeds(data)[i].favicon_url]
    /\ loading' = FALSE
    /\ parserInvoked' = TRUE
    /\ pc' = "done"
    /\ lastEvent' = "complete"
    /\ UNCHANGED <<error, searchTerm, fetchCount>>

\* The body is read and Papa.parse calls the error callback.
ParseError ==
    /\ pc = "reading"
    /\ error' = <<"Error parsing CSV: ", "parser error">>
    /\ loading' = FALSE
    /\ parserInvoked' = TRUE
    /\ pc' = "done"
    /\ lastEvent' = "parseError"
    /\ UNCHANGED <<feeds, searchTerm, fetchCount, results, imgSrc>>

\* The body is read and an exception escapes Papa.parse or the row mapping,
\* before setFeeds is reached; or something that is not an Error is thrown.
ParseThrow ==
    /\ pc = "reading"
    /\ \E message \in {"exception", "Unknown error"} : Catch(<<message>>)
    /\ parserInvoked' = TRUE
    /\ lastEvent' = "parseThrow"

\* onChange={(e) => setSearchTerm(e.target.value)}; the list is rendered again:
\* a row that stays keeps its <img>, a row that appears gets a fresh one.
\* Rows sharing a key may have their element re-created.
SetSearchTerm ==
    /\ ~loading /\ error = Null
    /\ \E term \in SearchTerms :
          /\ searchTerm' = term
          /\ \E recreated \in SUBSET {i \in DOMAIN imgSrc :
                    \E j \in 1..Len(feeds) : j # i /\ feeds[j].id = feeds[i].id} :
                imgSrc' = [i \in Displayed(feeds, term) |->
                             IF i \in DOMAIN imgSrc /\ i \notin recreated
                             THEN imgSrc[i] ELSE feeds[i].favicon_url]
    /\ lastEvent' = "search"
    /\ UNCHANGED <<feeds, loading, error, pc, fetchCount, parserInvoked, results>>

\* The fallback stored in the entry instead of in the image element.
FaviconError_InState ==
    /\ ~loading /\ error = Null
    /\ \E i \in DOMAIN imgSrc :
          /\ imgSrc' = [imgSrc EXCEPT ![i] = DefaultFavicon]
          /\ feeds' = [feeds EXCEPT ![i].favicon_url = DefaultFavicon]
    /\ lastEvent' = "faviconError"
    /\ UNCHANGED <<loading, error, searchTerm, pc, fetchCount,
                   parserInvoked, results>>

\* <img onError> : the failing image's src becomes the default favicon.
FaviconError ==
    /\ ~loading /\ error = Null
    /\ \E i \in DOMAIN imgSrc :
          imgSrc' = [imgSrc EXCEPT ![i] = DefaultFavicon]
    /\ lastEvent' = "faviconError"
    /\ UNCHANGED <<feeds, loading, error, searchTerm, pc, fetchCount,
                   parserInvoked, results>>

Next ==
    \/ Mount
    \/ FetchReject
    \/ FetchNotOk
    \/ FetchOk
    \/ TextReject
    \/ ParseComplete
    \/ ParseError
    \/ ParseThrow
    \/ SetSearchTerm
    \/ FaviconError

Spec == Init /\ [][Next]_vars

\* The event loop runs every continuation of a settled promise.
Load == Mount \/ FetchReject \/ FetchNotOk \/ FetchOk \/ TextReject
           \/ ParseComplete \/ ParseError \/ ParseThrow

LiveSpec == Init /\ [][Next]_vars /\ WF_vars(Load)

TypeOK ==
    /\ loading \in BOOLEAN
    /\ pc \in {"mount", "fetching", "reading", "done"}
    /\ searchTerm \in SearchTerms
    /\ Len(feeds) <= MaxRows

\* ------------------------------------------------------------- properties
\* feed.<column> is a non-empty string.
Present(row, column) == column \in DOMAIN row /\ row[column] # << >>

\* Positions of the delivered rows that carry a feed_url.
RowsWithUrl == {k \in 1..Len(results.data) : Present(results.data[k], "feed_url")}

\* Position in feeds of the k-th delivered row, if rows with a feed_url are
\* kept in order and the others dropped.
Rank(k) == Cardinality({j \in RowsWithUrl : j <= k})

\* C1: every entry of feeds has a non-empty feed_url; of the rows the parser
\* delivered, exactly those with a non-empty feed_url appear in feeds, in order.
C1_FeedsHaveFeedUrl ==
    /\ \A i \in 1..Len(feeds) : feeds[i].feed_url # << >>
    /\ Len(feeds) = Cardinality(RowsWithUrl)
    /\ \A k \in RowsWithUrl : feeds[Rank(k)].feed_url = results.data[k].feed_url

C1_Witness ==
    /\ lastEvent = "complete"
    /\ Len(results.data) = 2
    /\ Len(feeds) = 1
    /\ \E k \in 1..Len(results.data) :
          "feed_url" \in DOMAIN results.data[k] /\ results.data[k].feed_url = << >>

\* C2: whenever the parser reports parse errors, alone or together with rows,
\* the component has error set and feeds empty.
C2_ParseErrorsGiveErrorState ==
    results.errors => (error # Null /\ feeds = << >>)

\* C3: after a rejected fetch or a response that is not OK the parser has not
\* been invoked, feeds is empty, error is set and loading is false; and in
\* every state a set error implies that feeds is empty.
C3_UnreachableGivesErrorState ==
    /\ lastEvent \in {"fetchReject", "fetchNotOk"} =>
          /\ ~parserInvoked
          /\ feeds = << >>
          /\ error # Null
          /\ loading = FALSE
    /\ error # Null => feeds = << >>

C3_Witness ==
    /\ lastEvent = "fetchNotOk"
    /\ error = <<"Error loading or processing feeds: ", "HTTP error! status: ", "404",
                 ". Ensure 'feeds_deduped.csv' is accessible.">>

\* Case folding of one character: both small sigmas fold to the same letter.
Fold(c) == IF LowerChar(c) = fsigma THEN sigma ELSE LowerChar(c)

\* t contains s when the two are compared character by character ignoring case.
ContainsIgnoringCase(t, s) ==
    \E i \in 0..(Len(t) - Len(s)) :
        \A j \in 1..Len(s) : Fold(t[i + j]) = Fold(s[j])

\* C4: filteredFeeds is the order-preserving subsequence of feeds whose
\* feed_title contains the search string ignoring case.
C4_FilterIsCaselessSubsequence ==
    filteredFeeds =
        SelectSeq(feeds, LAMBDA f : ContainsIgnoringCase(f.feed_title, searchTerm))

\* C5: when a search edit replaces the search string by one that contains it,
\* every row shown afterwards was shown before.
C5_FilterMonotonic ==
    [][(lastEvent' = "search" /\ includes(searchTerm', searchTerm)) =>
          Displayed(feeds', searchTerm') \subseteq Displayed(feeds, searchTerm)]_vars

\* C6: loading only ever changes from true to false, once it is false neither
\* loading nor error changes again, and the only fetch is the one issued on
\* mount: none follows a failure.
C6_OneShotLoad ==
    [][/\ loading' # loading => (loading /\ ~loading')
       /\ ~loading => (loading' = loading /\ error' = error)
       /\ error' # error => (loading /\ ~loading' /\ error = Null)
       /\ fetchCount' # fetchCount => (pc = "mount" /\ fetchCount = 0 /\ fetchCount' = 1)
       /\ error # Null => fetchCount' = fetchCount]_vars

C6_Witness ==
    /\ ~loading
    /\ error = Null
    /\ lastEvent = "faviconError"
    /\ searchTerm # << >>
    /\ fetchCount = 1

\* C7: a delivered row with a feed_url is kept whatever its other columns: a
\* missing or empty feed_title becomes "Untitled Feed", a missing website_url
\* the empty string, and the load ends ready, not in error.
C7_RowDefectsDefaulted ==
    /\ \A k \in RowsWithUrl :
          /\ Rank(k) \in 1..Len(feeds)
          /\ feeds[Rank(k)].feed_title =
                IF Present(results.data[k], "feed_title")
                THEN results.data[k].feed_title ELSE UntitledFeed
          /\ feeds[Rank(k)].website_url =
                IF Present(results.data[k], "website_url")
                THEN results.data[k].website_url ELSE << >>
    /\ results.data # << >> => (error = Null /\ loading = FALSE)

C7_Witness ==
    /\ Len(feeds) = 2
    /\ \E k \in RowsWithUrl :
          /\ "feed_title" \notin DOMAIN results.data[k]
          /\ "website_url" \notin DOMAIN results.data[k]
          /\ feeds[Rank(k)].feed_title = UntitledFeed
    /\ \E k \in RowsWithUrl :
          /\ "feed_title" \in DOMAIN results.data[k]
          /\ results.data[k].feed_title = << >>

\* C8: once loading is false feeds never changes; a search edit leaves feeds,
\* loading and error as they are, and a favicon failure leaves feeds, loading,
\* error and searchTerm as they are and changes the src of one image only.
C8_FeedsFrozenAfterLoad ==
    [][/\ ~loading => feeds' = feeds
       /\ lastEvent' = "search" => UNCHANGED <<feeds, loading, error>>
       /\ lastEvent' = "faviconError" =>
             /\ UNCHANGED <<feeds, loading, error, searchTerm>>
             /\ DOMAIN imgSrc' = DOMAIN imgSrc
             /\ \E i \in DOMAIN imgSrc :
                   \A j \in DOMAIN imgSrc \ {i} : imgSrc'[j] = imgSrc[j]]_vars

C8_Witness ==
    /\ lastEvent = "faviconError"
    /\ Len(feeds) = 2
    /\ \E i \in DOMAIN imgSrc :
          imgSrc[i] = DefaultFavicon /\ feeds[i].favicon_url # DefaultFavicon

\* C9: every page load eventually leaves the loading state, ready or in error.
C9_EventuallyLoaded ==
    <>(loading = FALSE /\ pc = "done")

C9_Witness ==
    /\ lastEvent = "parseThrow"
    /\ loading = FALSE
    /\ error # Null

====
